---- MODULE Spec2Model ----
(***************************************************************************)
(* Model of the boids update kernel of silly-demos (src/boids.rs, with the *)
(* Vec2 helpers of src/vec2.rs and the entry points of src/lib.rs).        *)
(*                                                                         *)
(* Numbers.  The program computes in f32.  The model computes in signed    *)
(* fixed point: the integer n stands for the value n / Scale.  A sum or a  *)
(* difference is exact, a product or a quotient is rounded to the nearest  *)
(* representable value (ties away from zero, so that rounding commutes     *)
(* with negation as it does in IEEE arithmetic), and a square root is      *)
(* rounded to the nearest representable value.  Squared distances that the *)
(* program only compares are compared exactly.                             *)
(***************************************************************************)
EXTENDS Integers, Naturals, Sequences, FiniteSets, TLC

VARIABLES
    pc,              \* position of the caller / of update_boids_flat_impl
    boids_data,      \* the input buffer (stride 4)
    config,          \* SimpleConfig of the running call
    dt,              \* frame delta time of the running call
    min_speed,       \* min_speed of the running call
    jitter,          \* jitter amplitude of the running call
    states,          \* Vec<BoidState> built from boids_data
    updated_states,  \* Vec<BoidState> collected by the map over states
    tiers,           \* per agent: the branch update_boid_state took and the
                     \* value of its local `vel` before the speed clamp
    result,          \* the returned buffer (stride 5)
    call,            \* arguments of a directly called helper function
    ret              \* its return value

vars == <<pc, boids_data, config, dt, min_speed, jitter, states,
          updated_states, tiers, result, call, ret>>

-----------------------------------------------------------------------------
(* f32 arithmetic in fixed point *)

Scale == 10 * 10

Abs(a) == IF a < 0 THEN -a ELSE a

Max(a, b) == IF a > b THEN a ELSE b

Min(a, b) == IF a < b THEN a ELSE b

\* n / d rounded to the nearest integer, ties away from zero (d # 0)
RDiv(n, d) ==
    LET q == (2 * Abs(n) + Abs(d)) \div (2 * Abs(d))
    IN  IF (n < 0) = (d < 0) THEN q ELSE -q

\* results of an f32 division by zero
Inf == 1000000
NaN == 7777777

\* a * b
FMul(a, b) == RDiv(a * b, Scale)

\* a / b
FDiv(a, b) ==
    IF b = 0
    THEN IF a > 0 THEN Inf ELSE IF a < 0 THEN -Inf ELSE NaN
    ELSE RDiv(a * Scale, b)

\* one step of the digit-by-digit square root: r with the bit b added when
\* the square still fits
SqrtBit(n, r, b) == IF (r + b) * (r + b) <= n THEN r + b ELSE r

\* sqrt of a value given at scale Scale^2, result at scale Scale, rounded to
\* the nearest value
SqrtSq(n) ==
    LET r13 == SqrtBit(n, 0, 8192)
        r12 == SqrtBit(n, r13, 4096)
        r11 == SqrtBit(n, r12, 2048)
        r10 == SqrtBit(n, r11, 1024)
        r9 == SqrtBit(n, r10, 512)
        r8 == SqrtBit(n, r9, 256)
        r7 == SqrtBit(n, r8, 128)
        r6 == SqrtBit(n, r7, 64)
        r5 == SqrtBit(n, r6, 32)
        r4 == SqrtBit(n, r5, 16)
        r3 == SqrtBit(n, r4, 8)
        r2 == SqrtBit(n, r3, 4)
        r1 == SqrtBit(n, r2, 2)
        r0 == SqrtBit(n, r1, 1)
    IN  IF n - r0 * r0 > r0 THEN r0 + 1 ELSE r0

\* f32::clamp
Clamp(x, lo, hi) == IF x < lo THEN lo ELSE IF x > hi THEN hi ELSE x

-----------------------------------------------------------------------------
(* Vec2 *)

Vec2(x, y) == [x |-> x, y |-> y]

VecAdd(a, b) == Vec2(a.x + b.x, a.y + b.y)

VecSub(a, b) == Vec2(a.x - b.x, a.y - b.y)

VecMul(a, s) == Vec2(FMul(a.x, s), FMul(a.y, s))

length(v) == SqrtSq(v.x * v.x + v.y * v.y)

normalized(v) ==
    LET len == length(v)
    IN  IF len > 0 THEN Vec2(FDiv(v.x, len), FDiv(v.y, len)) ELSE v

-----------------------------------------------------------------------------
(* BoidState and the three flocking forces *)

IN_MARGIN == 1

BoidState(x, y, vx, vy, flags) ==
    [x |-> x, y |-> y, vx |-> vx, vy |-> vy, flags |-> flags]

\* squared distance between two agents, exact, at scale Scale^2
DistSq(boid, other) ==
    (boid.x - other.x) * (boid.x - other.x)
    + (boid.y - other.y) * (boid.y - other.y)

\* the test `dist_sq > 0.0 && dist_sq < radius * radius` of the three loops
InRadiusInclusive(dist_sq, radius) == dist_sq > 0 /\ dist_sq <= radius * radius

InRadius(dist_sq, radius) == dist_sq > 0 /\ dist_sq < radius * radius

\* the indices j the loop over states accepts for boid_idx
Neighbours(boid_idx, sts, radius) ==
    {j \in 1..Len(sts) :
        j # boid_idx /\ InRadius(DistSq(sts[boid_idx], sts[j]), radius)}

RECURSIVE SumOver(_, _, _)
\* the accumulation `acc += term[j]` over the accepted indices
SumOver(term, js, acc) ==
    IF js = {} THEN acc
    ELSE LET j == CHOOSE k \in js : \A m \in js : k <= m
         IN  SumOver(term, js \ {j}, acc + term[j])

\* `normalized * weight` of one neighbour at distance dist, for one axis
SepTermTowards(delta, dist) == FMul(FDiv(-delta, dist), FDiv(Scale, dist))

SepTerm(delta, dist) == FMul(FDiv(delta, dist), FDiv(Scale, dist))

\* `steer /= count as f32` under `if count > 0`
SepAverage(steer, count) == IF count > 0 THEN RDiv(steer, count) ELSE steer

separation(boid_idx, sts, radius) ==
    LET boid == sts[boid_idx]
        nb == Neighbours(boid_idx, sts, radius)
        tx == [j \in nb |-> SepTerm(boid.x - sts[j].x, SqrtSq(DistSq(boid, sts[j])))]
        ty == [j \in nb |-> SepTerm(boid.y - sts[j].y, SqrtSq(DistSq(boid, sts[j])))]
    IN  <<SepAverage(SumOver(tx, nb, 0), Cardinality(nb)),
          SepAverage(SumOver(ty, nb, 0), Cardinality(nb))>>

alignment_unguarded(boid_idx, sts, radius) ==
    LET boid == sts[boid_idx]
        nb == Neighbours(boid_idx, sts, radius)
        tvx == [j \in nb |-> sts[j].vx]
        tvy == [j \in nb |-> sts[j].vy]
    IN  <<SepAverage(SumOver(tvx, nb, 0), Cardinality(nb)) - boid.vx,
          SepAverage(SumOver(tvy, nb, 0), Cardinality(nb)) - boid.vy>>

alignment(boid_idx, sts, radius) ==
    LET boid == sts[boid_idx]
        nb == Neighbours(boid_idx, sts, radius)
        tvx == [j \in nb |-> sts[j].vx]
        tvy == [j \in nb |-> sts[j].vy]
    IN  IF Cardinality(nb) > 0
        THEN <<RDiv(SumOver(tvx, nb, 0), Cardinality(nb)) - boid.vx,
               RDiv(SumOver(tvy, nb, 0), Cardinality(nb)) - boid.vy>>
        ELSE <<0, 0>>

\* the steer of cohesion towards the point at offset (desired_x, desired_y)
CohesionSteer(desired_x, desired_y, dist, boid) ==
    IF dist > 0
    THEN <<FDiv(desired_x, dist) - boid.vx, FDiv(desired_y, dist) - boid.vy>>
    ELSE <<0, 0>>

CohesionDesired(desired_x, desired_y, boid) ==
    CohesionSteer(desired_x, desired_y,
                  SqrtSq(desired_x * desired_x + desired_y * desired_y), boid)

cohesion(boid_idx, sts, radius) ==
    LET boid == sts[boid_idx]
        nb == Neighbours(boid_idx, sts, radius)
        tx == [j \in nb |-> sts[j].x]
        ty == [j \in nb |-> sts[j].y]
    IN  IF Cardinality(nb) > 0
        THEN CohesionDesired(RDiv(SumOver(tx, nb, 0), Cardinality(nb)) - boid.x,
                             RDiv(SumOver(ty, nb, 0), Cardinality(nb)) - boid.y,
                             boid)
        ELSE <<0, 0>>

\* `(x / mag * max_mag, y / mag * max_mag)`
Rescale(x, y, mag, max_mag) ==
    <<FMul(FDiv(x, mag), max_mag), FMul(FDiv(y, mag), max_mag)>>

limit_magnitude_unsquared(x, y, max_mag) ==
    IF x * x + y * y > max_mag * Scale
    THEN Rescale(x, y, SqrtSq(x * x + y * y), max_mag)
    ELSE <<x, y>>

limit_magnitude(x, y, max_mag) ==
    IF x * x + y * y > max_mag * max_mag
    THEN Rescale(x, y, SqrtSq(x * x + y * y), max_mag)
    ELSE <<x, y>>

-----------------------------------------------------------------------------
(* Progressive speed clamp *)

\* the floor 1e-6 of `speed.max(1e-6)`: below the resolution of the model,
\* it is the smallest positive value
TinySpeed == 1

\* the blend factors 0.1 passed as accel and decel
Blend == Scale \div 10

\* `v * (1.0 - k) + v * scale * k`
BlendScaled(v, scale, k) ==
    VecAdd(VecMul(v, Scale - k), VecMul(VecMul(v, scale), k))

\* the divisor `speed.max(1e-6)` of the floor blend
FloorDivisorUnfloored(speed) == speed

FloorDivisor(speed) == Max(speed, TinySpeed)

\* the floor blend, for the speed of v
AccelBlendFromRest(v, speed, mn, accel) ==
    IF speed < mn
    THEN IF speed = 0
         THEN Vec2(FMul(accel, mn), 0)
         ELSE BlendScaled(v, FDiv(mn, FloorDivisor(speed)), accel)
    ELSE v

AccelBlend(v, speed, mn, accel) ==
    IF speed < mn
    THEN BlendScaled(v, FDiv(mn, FloorDivisor(speed)), accel)
    ELSE v

\* the ceiling blend, for the recomputed speed of v
DecelBlend(v, speed, mx, decel) ==
    IF speed > mx THEN BlendScaled(v, FDiv(mx, speed), decel) ELSE v

Decelerate(v, mx, decel) == DecelBlend(v, length(v), mx, decel)

clamp_speed_wrong_bound(v, mn, mx, accel, decel) ==
    Decelerate(AccelBlend(v, length(v), mx, accel), mx, decel)

clamp_speed_progressive(v, mn, mx, accel, decel) ==
    Decelerate(AccelBlend(v, length(v), mn, accel), mx, decel)

-----------------------------------------------------------------------------
(* Boundary handling *)

\* the wall multiplier 30.0 and its factor 0.3
wall_mult == 30 * Scale
WallFactor == (3 * Scale) \div 10

\* `t2 * t2 * (6.0 * t - 15.0 * t2 + 10.0)`
SmoothPoly(t, t2) ==
    FMul(FMul(t2, t2), FMul(6 * Scale, t) - FMul(15 * Scale, t2) + 10 * Scale)

SmoothOf(t) == SmoothPoly(t, FMul(t, t))

\* the nested fn smoothstep with its steepened polynomial
smoothstep(edge0, edge1, x) ==
    SmoothOf(Clamp(FDiv(x - edge0, edge1 - edge0), 0, Scale))

\* the force `(wall_mult * 0.3 * strength * s).min(max_wall_cap)` of one wall
\* for the penetration depth `pen` into its margin
WallForce(pen, cfg) ==
    Min(FMul(FMul(FMul(wall_mult, WallFactor), cfg.boundary_strength),
             smoothstep(0, Scale, FDiv(Max(pen, 0), cfg.boundary_margin))),
        4 * cfg.boundary_strength)

\* the force one wall block adds: 0 when its `if` is not entered
WallTerm(entered, pen, cfg) == IF entered THEN WallForce(pen, cfg) ELSE 0

\* `if f > max_wall_force { max_wall_force = f; wall_dir = (dx, dy) }` on the
\* record m = <<max_wall_force, wall_dir_x, wall_dir_y>>
WallMax(m, entered, f, dx, dy) ==
    IF entered /\ f > m[1] THEN <<f, dx, dy>> ELSE m

\* the returned triple, from the forces fl, fr, ft, fb of the four walls and
\* the strongest wall m
BoundaryTriple(fl, fr, ft, fb, m) ==
    <<<<fl - fr, ft - fb>>, <<m[2] * Scale, m[3] * Scale>>, m[1]>>

BoundaryWalls(left, right, top, bottom, fl, fr, ft, fb) ==
    BoundaryTriple(fl, fr, ft, fb,
        WallMax(WallMax(WallMax(WallMax(<<0, 0, 0>>, left, fl, 1, 0),
                                right, fr, -1, 0),
                        top, ft, 0, 1),
                bottom, fb, 0, -1))

BoundarySides(boid, cfg, left, right, top, bottom) ==
    BoundaryWalls(left, right, top, bottom,
        WallTerm(left, cfg.boundary_margin - boid.x, cfg),
        WallTerm(right, boid.x - (cfg.world_width - cfg.boundary_margin), cfg),
        WallTerm(top, cfg.boundary_margin - boid.y, cfg),
        WallTerm(bottom, boid.y - (cfg.world_height - cfg.boundary_margin), cfg))

boundary_forces(boid, cfg) ==
    BoundarySides(boid, cfg,
        boid.x < cfg.boundary_margin,
        boid.x > cfg.world_width - cfg.boundary_margin,
        boid.y < cfg.boundary_margin,
        boid.y > cfg.world_height - cfg.boundary_margin)

\* the boost `nudge * (0.8 + 0.4 * rng)`
NudgeOf(nudge, rng) ==
    FMul(nudge, (8 * Scale) \div 10 + FMul((4 * Scale) \div 10, rng))

\* one axis of handle_hard_bounce: <<new position, new velocity, bounced>>
BounceAxisNegate(p, v, limit, boost) ==
    IF p < 0 THEN <<0, -v + boost, TRUE>>
    ELSE IF p > limit THEN <<limit, -v - boost, TRUE>>
    ELSE <<p, v, FALSE>>

BounceAxis(p, v, limit, boost) ==
    IF p < 0 THEN <<0, Abs(v) + boost, TRUE>>
    ELSE IF p > limit THEN <<limit, -Abs(v) - boost, TRUE>>
    ELSE <<p, v, FALSE>>

\* `if bounced { Some(..) } else { None }`
BounceOption(ax, ay) ==
    IF ax[3] \/ ay[3]
    THEN [tag |-> "Some", x |-> ax[1], y |-> ay[1], vx |-> ax[2], vy |-> ay[2]]
    ELSE [tag |-> "None"]

handle_hard_bounce(boid, cfg, nudge, rng) ==
    BounceOption(BounceAxis(boid.x, boid.vx, cfg.world_width, NudgeOf(nudge, rng)),
                 BounceAxis(boid.y, boid.vy, cfg.world_height, NudgeOf(nudge, rng)))

\* the result built from the wall forces bf and the bounce hb
BoundaryResultOf(bf, hb) ==
    IF hb.tag = "Some"
    THEN [tag |-> "Bounce", x |-> hb.x, y |-> hb.y, vx |-> hb.vx, vy |-> hb.vy]
    ELSE [tag |-> "Force", fx |-> bf[1][1], fy |-> bf[1][2]]

\* rng is the value Math.random() returns to this call
boundary_avoidance_simple(boid, cfg, mn, rng) ==
    BoundaryResultOf(boundary_forces(boid, cfg),
                     handle_hard_bounce(boid, cfg, 5 * Scale, rng))

-----------------------------------------------------------------------------
(* Per-agent update *)

\* Math.random() returns a value in [0, 1); the model draws quarter turns,
\* for which the cosine and sine of `r * TAU` are representable
RandomDraws == {0, Scale \div 4, Scale \div 2, (3 * Scale) \div 4}

CosTau(r) ==
    CASE r = 0 -> Scale
      [] r = Scale \div 4 -> 0
      [] r = Scale \div 2 -> -Scale
      [] r = (3 * Scale) \div 4 -> 0

SinTau(r) ==
    CASE r = 0 -> 0
      [] r = Scale \div 4 -> Scale
      [] r = Scale \div 2 -> 0
      [] r = (3 * Scale) \div 4 -> -Scale

\* the margin test without its right and bottom walls
InMarginBandNearWalls(x, y, cfg) ==
    \/ x < cfg.boundary_margin
    \/ y < cfg.boundary_margin

\* the margin test, applied to the previous position at the top of
\* update_boid_state and to the new position at its end
InMarginBand(x, y, cfg) ==
    \/ x < cfg.boundary_margin
    \/ x > cfg.world_width - cfg.boundary_margin
    \/ y < cfg.boundary_margin
    \/ y > cfg.world_height - cfg.boundary_margin

\* velocity of an in-margin agent after the centring force, before the clamp
MarginVelByStrength(boid, cfg, d) ==
    LET center == Vec2(FMul(Scale \div 2, cfg.world_width),
                       FMul(Scale \div 2, cfg.world_height))
        pos == Vec2(boid.x, boid.y)
        dir == normalized(VecSub(center, pos))
        margin_force == FMul(10 * Scale, cfg.boundary_strength)
        force == VecMul(dir, margin_force)
    IN  VecAdd(Vec2(boid.vx, boid.vy), VecMul(force, d))

MarginVel(boid, cfg, d) ==
    LET center == Vec2(FMul(Scale \div 2, cfg.world_width),
                       FMul(Scale \div 2, cfg.world_height))
        pos == Vec2(boid.x, boid.y)
        dir == normalized(VecSub(center, pos))
        margin_force == FMul(10 * Scale, cfg.max_force)
        force == VecMul(dir, margin_force)
    IN  VecAdd(Vec2(boid.vx, boid.vy), VecMul(force, d))

\* the weighted sum of the three forces plus the additive wall force of br,
\* magnitude limited
CombineForces(sep, ali, coh, br, cfg) ==
    limit_magnitude(FMul(sep[1], cfg.separation_strength)
                    + FMul(ali[1], cfg.alignment_strength)
                    + FMul(coh[1], cfg.cohesion_strength) + br.fx,
                    FMul(sep[2], cfg.separation_strength)
                    + FMul(ali[2], cfg.alignment_strength)
                    + FMul(coh[2], cfg.cohesion_strength) + br.fy,
                    cfg.max_force)

FlockForce(i, boid, sts, cfg, br) ==
    CombineForces(separation(i, sts, cfg.separation_radius),
                  alignment(i, sts, cfg.alignment_radius),
                  cohesion(i, sts, cfg.cohesion_radius), br, cfg)

\* `vel = boid.vel + force * dt`, then `vel += jitter_vec`
Integrate(boid, f, d, jit, ang) ==
    VecAdd(VecAdd(Vec2(boid.vx, boid.vy), VecMul(Vec2(f[1], f[2]), d)),
           Vec2(FMul(CosTau(ang), jit), FMul(SinTau(ang), jit)))

\* velocity on the normal path after force and jitter, before the clamp
FlockVel(i, boid, sts, cfg, d, jit, br, ang) ==
    Integrate(boid, FlockForce(i, boid, sts, cfg, br), d, jit, ang)

\* the two call sites of clamp_speed_progressive, with the literals 0.1, 0.1
ClampCallSwapped(vel, mn, cfg) ==
    clamp_speed_progressive(vel, Blend, Blend, mn, cfg.max_speed)

ClampCall(vel, mn, cfg) ==
    clamp_speed_progressive(vel, mn, cfg.max_speed, Blend, Blend)

\* the flags of the normal path, set from the new position
OutFlagsOld(boid, new_pos, cfg) ==
    IF InMarginBand(boid.x, boid.y, cfg) THEN IN_MARGIN ELSE 0

OutFlags(boid, new_pos, cfg) ==
    IF InMarginBand(new_pos.x, new_pos.y, cfg) THEN IN_MARGIN ELSE 0

\* the state returned by the margin override for the clamped velocity vel
MarginStateNoFlag(new_pos, vel) ==
    BoidState(new_pos.x, new_pos.y, vel.x, vel.y, 0)

MarginState(new_pos, vel) ==
    BoidState(new_pos.x, new_pos.y, vel.x, vel.y, IN_MARGIN)

\* the state returned by the normal path for the clamped velocity vel
FlockState(boid, new_pos, vel, cfg) ==
    BoidState(new_pos.x, new_pos.y, vel.x, vel.y, OutFlags(boid, new_pos, cfg))

\* `pos + vel * dt`
AdvanceNoDt(boid, vel, d) == VecAdd(Vec2(boid.x, boid.y), vel)

Advance(boid, vel, d) == VecAdd(Vec2(boid.x, boid.y), VecMul(vel, d))

MarginMove(boid, vel, d) == MarginState(Advance(boid, vel, d), vel)

FlockMove(boid, vel, d, cfg) == FlockState(boid, Advance(boid, vel, d), vel, cfg)

\* the `match boundary_result` and the rest of the normal path
ApplyBoundary(i, boid, sts, cfg, d, mn, jit, ang, br) ==
    CASE br.tag = "OverrideVelocity" ->
            BoidState(boid.x + FMul(br.vx, d), boid.y + FMul(br.vy, d),
                      br.vx, br.vy, 0)
      [] br.tag = "Bounce" ->
            BoidState(br.x, br.y, br.vx, br.vy, 0)
      [] br.tag = "Force" ->
            FlockMove(boid,
                      ClampCall(FlockVel(i, boid, sts, cfg, d, jit, br, ang), mn, cfg),
                      d, cfg)

\* rng and ang are the values the two Math.random() calls return
update_boid_state(i, boid, sts, cfg, d, mn, jit, rng, ang) ==
    IF InMarginBand(boid.x, boid.y, cfg)
    THEN MarginMove(boid, ClampCall(MarginVel(boid, cfg, d), mn, cfg), d)
    ELSE ApplyBoundary(i, boid, sts, cfg, d, mn, jit, ang,
                       boundary_avoidance_simple(boid, cfg, mn, rng))

-----------------------------------------------------------------------------
(* update_boids_flat_impl *)

SimpleConfig(sr, ar, cr, ss, as, cs, ms, mf, bm, bs, ww, wh) ==
    [separation_radius |-> sr, alignment_radius |-> ar, cohesion_radius |-> cr,
     separation_strength |-> ss, alignment_strength |-> as,
     cohesion_strength |-> cs, max_speed |-> ms, max_force |-> mf,
     boundary_margin |-> bm, boundary_strength |-> bs,
     world_width |-> ww, world_height |-> wh]

\* `boids_data.len() / 4`
BoidCount(data) == Len(data) \div 4

\* the conversion of the flat buffer to internal boid states
StatesOf(data) ==
    [i \in 1..BoidCount(data) |->
        LET idx == (i - 1) * 4
        IN  BoidState(data[idx + 1], data[idx + 2], data[idx + 3], data[idx + 4], 0)]

\* the slice `&states` every call of update_boid_state reads its neighbours from
FrameViewInPlace(sts, upd) ==
    [k \in 1..Len(sts) |->
        IF k <= Len(upd) THEN [upd[k] EXCEPT !.flags = 0] ELSE sts[k]]

FrameView(sts, upd) == sts

RECURSIVE ToFlatStride4(_)
ToFlatStride4(sts) ==
    IF sts = <<>> THEN <<>>
    ELSE <<sts[1].x, sts[1].y, sts[1].vx, sts[1].vy>> \o ToFlatStride4(Tail(sts))

RECURSIVE ToFlat(_)
\* the conversion back to a flat buffer of stride 5
ToFlat(sts) ==
    IF sts = <<>> THEN <<>>
    ELSE <<sts[1].x, sts[1].y, sts[1].vx, sts[1].vy, sts[1].flags>>
         \o ToFlat(Tail(sts))

NoValue == <<>>

\* the arm of `match boundary_result` taken, with the velocity it hands to
\* clamp_speed_progressive
TierOfBoundary(i, boid, sts, cfg, d, jit, ang, br) ==
    IF br.tag = "Force"
    THEN [tier |-> "Force", vel |-> FlockVel(i, boid, sts, cfg, d, jit, br, ang)]
    ELSE [tier |-> br.tag, vel |-> NoValue]

\* the branch of update_boid_state taken for a boid, with the velocity that
\* branch hands to clamp_speed_progressive
TierOf(i, boid, sts, cfg, d, mn, jit, rng, ang) ==
    IF InMarginBand(boid.x, boid.y, cfg)
    THEN [tier |-> "Margin", vel |-> MarginVel(boid, cfg, d)]
    ELSE TierOfBoundary(i, boid, sts, cfg, d, jit, ang,
                        boundary_avoidance_simple(boid, cfg, mn, rng))

\* entry of update_boids_flat_impl up to the construction of config
Enter ==
    /\ pc = "idle"
    /\ IF BoidCount(boids_data) = 0
       THEN /\ result' = <<>>
            /\ pc' = "done"
            /\ UNCHANGED states
       ELSE /\ states' = StatesOf(boids_data)
            /\ pc' = "update"
            /\ UNCHANGED result
    /\ UNCHANGED <<boids_data, config, dt, min_speed, jitter, updated_states,
                   tiers, call, ret>>

\* one step of the map over states.iter().enumerate()
UpdateBoid ==
    /\ pc = "update"
    /\ Len(updated_states) < Len(states)
    /\ LET i == Len(updated_states) + 1
           boid == states[i]
       IN  \E rng \in RandomDraws, ang \in RandomDraws :
              /\ updated_states' =
                    Append(updated_states,
                           update_boid_state(i, boid, FrameView(states, updated_states),
                                             config, dt, min_speed, jitter, rng, ang))
              /\ tiers' =
                    Append(tiers,
                           TierOf(i, boid, FrameView(states, updated_states),
                                  config, dt, min_speed, jitter, rng, ang))
    /\ UNCHANGED <<pc, boids_data, config, dt, min_speed, jitter, states,
                   result, call, ret>>

\* the conversion of updated_states to the returned buffer
Collect ==
    /\ pc = "update"
    /\ Len(updated_states) = Len(states)
    /\ result' = ToFlat(updated_states)
    /\ pc' = "done"
    /\ UNCHANGED <<boids_data, config, dt, min_speed, jitter, states,
                   updated_states, tiers, call, ret>>

-----------------------------------------------------------------------------
(* Inputs of the model *)

\* the longest input buffer
MaxLen == 9

World == 10 * Scale

Margins == {-2 * Scale, 0, 2 * Scale}
Strengths == {0, Scale}
\* (dt, min_speed, jitter) of a call
FrameParams ==
    { <<Scale, 0, 0>>,
      <<Scale \div 10, 2 * Scale, 0>>,
      <<Scale, 2 * Scale, Scale \div 2>> }

Configs ==
    {SimpleConfig(2 * Scale, 3 * Scale, 4 * Scale, s, s, s, 4 * Scale, Scale,
                  m, Scale, World, World) : m \in Margins, s \in Strengths}

\* agents (x, y, vx, vy) a caller may pass
AgentInputs ==
    { <<5 * Scale, 5 * Scale, Scale, 0>>,
      <<6 * Scale, 5 * Scale, 0, 0>>,
      <<5 * Scale, 8 * Scale, 0, 6 * Scale>>,
      <<(5 * Scale) \div 2, 5 * Scale, -3 * Scale, 0>>,
      <<Scale, 5 * Scale, -2 * Scale, 3 * Scale>>,
      <<Scale, 5 * Scale, -6 * Scale, 3 * Scale>>,
      <<-Scale, 12 * Scale, 0, -4 * Scale>> }

\* a value of a trailing, incomplete record
TailValues == {7 * Scale}

RECURSIVE AgentLists(_)
AgentLists(n) ==
    IF n = 0 THEN {<<>>}
    ELSE {l \o a : l \in AgentLists(n - 1), a \in AgentInputs}

RECURSIVE TailLists(_)
TailLists(n) ==
    IF n = 0 THEN {<<>>}
    ELSE {l \o <<v>> : l \in TailLists(n - 1), v \in TailValues}

InputBuffers ==
    UNION {{l \o t : l \in AgentLists(n \div 4), t \in TailLists(n % 4)} :
           n \in 0..MaxLen}

Init ==
    /\ pc = "idle"
    /\ boids_data \in InputBuffers
    /\ config \in Configs
    /\ \E fp \in FrameParams :
          dt = fp[1] /\ min_speed = fp[2] /\ jitter = fp[3]
    /\ states = <<>>
    /\ updated_states = <<>>
    /\ tiers = <<>>
    /\ result = NoValue
    /\ call = NoValue
    /\ ret = NoValue

Next == Enter \/ UpdateBoid \/ Collect

Spec == Init /\ [][Next]_vars

-----------------------------------------------------------------------------
(* Properties of update_boids_flat_impl *)

\* the frame-t snapshot: the agents of the input buffer
Snap == StatesOf(boids_data)

\* the agents the running call has already updated
Processed == 1..Len(updated_states)

\* agent k of the input, read from its four slots
InputAgent(k) ==
    BoidState(boids_data[4 * (k - 1) + 1], boids_data[4 * (k - 1) + 2],
              boids_data[4 * (k - 1) + 3], boids_data[4 * (k - 1) + 4], 0)

\* the input buffer without its trailing incomplete record
Truncated == SubSeq(boids_data, 1, 4 * (Len(boids_data) \div 4))

\* u is the update of agent k of the frame sts for some pair of random draws
IsUpdateOf(u, k, sts) ==
    \E rng \in RandomDraws, ang \in RandomDraws :
        u = update_boid_state(k, sts[k], sts, config, dt, min_speed, jitter,
                              rng, ang)

OutOfWorld(b) ==
    \/ b.x < 0 \/ b.x > config.world_width
    \/ b.y < 0 \/ b.y > config.world_height

\* C2: an agent whose previous position is out of the world on an axis is
\* hard-bounced whatever the margin: that axis is clamped to the wall, its
\* velocity component is |old v| plus the nudge directed into the world, the
\* other axis is left alone, and the flags are 0.
C2_BounceFirst ==
    \A k \in Processed :
        LET b == Snap[k]
            u == updated_states[k]
        IN  OutOfWorld(b) =>
              /\ u.flags = 0
              /\ \E r \in RandomDraws :
                   LET n == NudgeOf(5 * Scale, r)
                   IN  /\ b.x < 0 => u.x = 0 /\ u.vx = Abs(b.vx) + n
                       /\ b.x > config.world_width =>
                             u.x = config.world_width /\ u.vx = -Abs(b.vx) - n
                       /\ (b.x >= 0 /\ b.x <= config.world_width) =>
                             u.x = b.x /\ u.vx = b.vx
                       /\ b.y < 0 => u.y = 0 /\ u.vy = Abs(b.vy) + n
                       /\ b.y > config.world_height =>
                             u.y = config.world_height /\ u.vy = -Abs(b.vy) - n
                       /\ (b.y >= 0 /\ b.y <= config.world_height) =>
                             u.y = b.y /\ u.vy = b.vy

\* the speed of an output agent lies within [min_speed, max_speed]
SpeedInRange(vx, vy) ==
    LET sp == length(Vec2(vx, vy))
    IN  sp >= min_speed /\ sp <= config.max_speed

\* C4 as stated: every agent that was not hard-bounced leaves the update
\* with a speed within [min_speed, max_speed].
C4_SpeedAlwaysInRange ==
    \A k \in Processed :
        tiers[k].tier # "Bounce" =>
            SpeedInRange(updated_states[k].vx, updated_states[k].vy)

\* C4 (amended): an agent that was not hard-bounced and whose velocity after
\* force and jitter, before the speed clamp, has a magnitude within
\* [min_speed, max_speed] leaves the update with a speed within that range.
C4_InRangeStaysInRange ==
    \A k \in Processed :
        (tiers[k].tier # "Bounce"
         /\ SpeedInRange(tiers[k].vel.x, tiers[k].vel.y))
        => SpeedInRange(updated_states[k].vx, updated_states[k].vy)

C4_Witness ==
    \E k \in Processed :
        /\ tiers[k].tier = "Force"
        /\ min_speed > 0
        /\ config.separation_strength > 0
        /\ tiers[k].vel.x # Snap[k].vx
        /\ SpeedInRange(tiers[k].vel.x, tiers[k].vel.y)
        /\ updated_states[k].vx = tiers[k].vel.x
        /\ updated_states[k].vy = tiers[k].vel.y

\* strictly inside [margin, width - margin] x [margin, height - margin]
StrictlyInside(b) ==
    /\ b.x > config.boundary_margin
    /\ b.x < config.world_width - config.boundary_margin
    /\ b.y > config.boundary_margin
    /\ b.y < config.world_height - config.boundary_margin

\* within boundary_margin of a wall
NearWall(x, y) ==
    \/ x < config.boundary_margin
    \/ config.world_width - x < config.boundary_margin
    \/ y < config.boundary_margin
    \/ config.world_height - y < config.boundary_margin

\* C5 as stated: an agent whose previous position is strictly inside the
\* inner rectangle never takes the margin override and its output flag is 0.
C5_InsideFlagZero ==
    \A k \in Processed :
        StrictlyInside(Snap[k]) =>
            tiers[k].tier # "Margin" /\ updated_states[k].flags = 0

\* C5 (amended): an agent whose previous position is strictly inside the
\* inner rectangle never takes the margin override; its output flag is
\* IN_MARGIN exactly when it took the normal flocking path and its new
\* position is within boundary_margin of a wall, and 0 otherwise.
C5_InsideFlagFromNewPos ==
    \A k \in Processed :
        StrictlyInside(Snap[k]) =>
            /\ tiers[k].tier # "Margin"
            /\ updated_states[k].flags \in {0, IN_MARGIN}
            /\ updated_states[k].flags = IN_MARGIN <=>
                  (tiers[k].tier = "Force"
                   /\ NearWall(updated_states[k].x, updated_states[k].y))

C5_Witness ==
    \E k \in Processed :
        /\ StrictlyInside(Snap[k])
        /\ config.boundary_margin > 0
        /\ NearWall(updated_states[k].x, updated_states[k].y)
        /\ updated_states[k].flags = IN_MARGIN

\* C7: during and after the map over the agents, states is the unmodified
\* frame-t snapshot of the input buffer and every collected agent is the
\* update of its snapshot agent computed against the snapshot alone.
C7_SnapshotOnly ==
    (pc \in {"update", "done"} /\ BoidCount(boids_data) > 0) =>
        /\ states = Snap
        /\ \A k \in Processed : IsUpdateOf(updated_states[k], k, Snap)

C7_Witness ==
    /\ pc = "done"
    /\ Len(updated_states) = 2
    /\ config.separation_strength > 0
    /\ 1 \in Neighbours(2, Snap, config.separation_radius)
    /\ \A k \in 1..2 : tiers[k].tier = "Force"
    /\ updated_states[1].x # Snap[1].x
    /\ updated_states[2].vx # Snap[2].vx

-----------------------------------------------------------------------------
(* Direct calls of the helper functions *)

\* the state of the variables update_boids_flat_impl does not use here
NoFrame ==
    /\ boids_data = <<>>
    /\ config = NoValue
    /\ dt = 0
    /\ min_speed = 0
    /\ jitter = 0
    /\ states = <<>>
    /\ updated_states = <<>>
    /\ tiers = <<>>
    /\ result = NoValue

Return(value) ==
    /\ pc = "call"
    /\ ret' = value
    /\ pc' = "returned"
    /\ UNCHANGED <<boids_data, config, dt, min_speed, jitter, states,
                   updated_states, tiers, result, call>>

(* boundary_avoidance_simple *)

BounceBoids ==
    {BoidState(x, y, vx, vy, 0) :
        x \in {-Scale, 5 * Scale, 11 * Scale},
        y \in {-Scale, 5 * Scale, 11 * Scale},
        vx \in {-6 * Scale, 0, 3 * Scale},
        vy \in {0, 3 * Scale}}

InitBounce ==
    /\ pc = "call"
    /\ call \in [boid : BounceBoids, cfg : Configs, rng : RandomDraws]
    /\ ret = NoValue
    /\ NoFrame

CallBoundaryAvoidance ==
    Return(boundary_avoidance_simple(call.boid, call.cfg, 0, call.rng))

SpecBounce == InitBounce /\ [][CallBoundaryAvoidance]_vars

\* the nudge floor 5.0 * 0.8
NudgeFloor == FMul(5 * Scale, (8 * Scale) \div 10)

\* C3 as stated: for an agent out of the world on an axis the bounced
\* velocity component of that axis points back into the world and its
\* magnitude is strictly greater than 4.0.
C3_StrictlyAboveFloor ==
    pc = "returned" =>
        LET b == call.boid
        IN  /\ b.x < 0 => ret.tag = "Bounce" /\ ret.vx > NudgeFloor
            /\ b.x > call.cfg.world_width =>
                  ret.tag = "Bounce" /\ ret.vx < -NudgeFloor
            /\ b.y < 0 => ret.tag = "Bounce" /\ ret.vy > NudgeFloor
            /\ b.y > call.cfg.world_height =>
                  ret.tag = "Bounce" /\ ret.vy < -NudgeFloor

\* C3 (amended): for an agent out of the world on an axis the bounced
\* velocity component of that axis points back into the world and its
\* magnitude is at least 4.0.
C3_AtLeastFloor ==
    pc = "returned" =>
        LET b == call.boid
        IN  /\ b.x < 0 => ret.tag = "Bounce" /\ ret.vx >= NudgeFloor
            /\ b.x > call.cfg.world_width =>
                  ret.tag = "Bounce" /\ ret.vx <= -NudgeFloor
            /\ b.y < 0 => ret.tag = "Bounce" /\ ret.vy >= NudgeFloor
            /\ b.y > call.cfg.world_height =>
                  ret.tag = "Bounce" /\ ret.vy <= -NudgeFloor

C3_Witness ==
    /\ pc = "returned"
    /\ call.boid.x < 0
    /\ call.boid.vx = 0
    /\ call.rng = 0
    /\ ret.tag = "Bounce"
    /\ ret.vx = NudgeFloor

(* clamp_speed_progressive *)

\* the largest velocity component, in halves of a unit
MaxHalfSpeed == 12

ClampVelocities ==
    {Vec2(i * (Scale \div 2), j * (Scale \div 2)) :
        i \in -MaxHalfSpeed..MaxHalfSpeed, j \in -MaxHalfSpeed..MaxHalfSpeed}

InitClamp ==
    /\ pc = "call"
    /\ call \in [v : ClampVelocities,
                 min_speed : {0, 2 * Scale, (5 * Scale) \div 2},
                 max_speed : {4 * Scale, 5 * Scale}]
    /\ ret = NoValue
    /\ NoFrame

CallClamp ==
    Return(clamp_speed_progressive(call.v, call.min_speed, call.max_speed,
                                   Blend, Blend))

SpecClamp == InitClamp /\ [][CallClamp]_vars

\* C9: a velocity whose magnitude is within [min_speed, max_speed], bounds
\* included, is returned unchanged by clamp_speed_progressive.
C9_NoOpInRange ==
    pc = "returned" =>
        ((length(call.v) >= call.min_speed /\ length(call.v) <= call.max_speed)
         => ret = call.v)

C9_Witness ==
    /\ pc = "returned"
    /\ call.v.x # 0
    /\ call.v.y # 0
    /\ length(call.v) = call.max_speed
    /\ ret = call.v

(* separation, alignment, cohesion *)

\* the largest population a force function is called with
MaxFlock == 3

ForceAgents ==
    { BoidState(0, 0, Scale, 0, 0),
      BoidState(Scale, 0, 0, 2 * Scale, 0),
      BoidState(0, 0, 0, -Scale, 0),
      BoidState(0, (3 * Scale) \div 2, -Scale, Scale, 0),
      BoidState(5 * Scale, 5 * Scale, Scale, Scale, 0) }

RECURSIVE Flocks(_)
Flocks(n) ==
    IF n = 0 THEN {<<>>}
    ELSE {Append(l, a) : l \in Flocks(n - 1), a \in ForceAgents}

InitForces ==
    /\ pc = "call"
    /\ \E n \in 1..MaxFlock :
          call \in [idx : 1..n, sts : Flocks(n), radius : {Scale, 2 * Scale}]
    /\ ret = NoValue
    /\ NoFrame

CallSeparation ==
    Return([fn |-> "separation",
            force |-> separation(call.idx, call.sts, call.radius)])

CallAlignment ==
    Return([fn |-> "alignment",
            force |-> alignment(call.idx, call.sts, call.radius)])

CallCohesion ==
    Return([fn |-> "cohesion",
            force |-> cohesion(call.idx, call.sts, call.radius)])

NextForces == CallSeparation \/ CallAlignment \/ CallCohesion

SpecForces == InitForces /\ [][NextForces]_vars

\* no other agent of the call lies within the radius of agent idx
NobodyWithin ==
    \A j \in 1..Len(call.sts) :
        j # call.idx =>
            DistSq(call.sts[call.idx], call.sts[j]) >= call.radius * call.radius

\* C8: for an agent with no other agent within the radius (the single agent
\* included), separation, alignment and cohesion each return exactly (0,0).
C8_NoNeighboursZero ==
    (pc = "returned" /\ NobodyWithin) => ret.force = <<0, 0>>

C8_Witness ==
    /\ pc = "returned"
    /\ ret.fn = "alignment"
    /\ Len(call.sts) >= 2
    /\ NobodyWithin
    /\ call.sts[call.idx].vx # 0
    /\ ret.force = <<0, 0>>

\* C10: of two agents at distinct positions closer than the radius, each
\* gets a non-zero separation force pointing away from the other, and the
\* two forces are equal in magnitude and opposite in direction.
C10_SeparationOpposite ==
    (/\ pc = "returned"
     /\ ret.fn = "separation"
     /\ Len(call.sts) = 2
     /\ DistSq(call.sts[1], call.sts[2]) > 0
     /\ DistSq(call.sts[1], call.sts[2]) < call.radius * call.radius)
    => LET me == call.sts[call.idx]
           o == 3 - call.idx
           other == call.sts[o]
           f == ret.force
           g == separation(o, call.sts, call.radius)
       IN  /\ f[1] = -g[1]
           /\ f[2] = -g[2]
           /\ f[1] * (me.x - other.x) >= 0
           /\ f[2] * (me.y - other.y) >= 0
           /\ f[1] * (me.x - other.x) + f[2] * (me.y - other.y) > 0

C10_Witness ==
    /\ pc = "returned"
    /\ ret.fn = "separation"
    /\ call.idx = 1
    /\ call.radius = 2 * Scale
    /\ Len(call.sts) = 2
    /\ call.sts[1].x = 0 /\ call.sts[1].y = 0
    /\ call.sts[2].x = Scale /\ call.sts[2].y = 0
    /\ ret.force[1] < 0
    /\ ret.force[2] = 0

(* create_boids_flat followed by one update *)

\* the largest `count` create_boids_flat is called with
MaxCount == 1

\* the values of Math.random() drawn while creating
CreateDraws == {0, Scale \div 4, Scale \div 2}

\* (dt, min_speed, boundary_margin) of the update that follows
RoundTripParams ==
    { <<Scale \div 10, 0, 0>>,
      <<Scale \div 10, 0, 2 * Scale>>,
      <<Scale \div 10, 2 * Scale, 0>>,
      <<Scale, 0, 0>> }

\* the four values pushed by one iteration of the loop of create_boids_flat
CreatedBoid(c, rx, ry, ra, rs) ==
    <<c.min_x + FMul(rx, c.max_x - c.min_x),
      c.min_y + FMul(ry, c.max_y - c.min_y),
      FMul(CosTau(ra), FMul(rs, c.max_speed)),
      FMul(SinTau(ra), FMul(rs, c.max_speed))>>

InitRoundTrip ==
    /\ pc = "create"
    /\ call \in [count : 0..MaxCount, min_x : {0}, max_x : {World},
                 min_y : {0}, max_y : {World}, max_speed : {4 * Scale}]
    /\ boids_data = <<>>
    /\ \E p \in RoundTripParams :
          /\ dt = p[1]
          /\ min_speed = p[2]
          /\ config = SimpleConfig(2 * Scale, 3 * Scale, 4 * Scale, 0, 0, 0,
                                   4 * Scale, Scale, p[3], Scale, World, World)
    /\ jitter = 0
    /\ states = <<>>
    /\ updated_states = <<>>
    /\ tiers = <<>>
    /\ result = NoValue
    /\ ret = NoValue

\* one iteration of `for _ in 0..count`
CreateBoid ==
    /\ pc = "create"
    /\ Len(boids_data) < 4 * call.count
    /\ \E rx \in CreateDraws, ry \in CreateDraws, ra \in CreateDraws,
          rs \in CreateDraws :
          boids_data' = boids_data \o CreatedBoid(call, rx, ry, ra, rs)
    /\ UNCHANGED <<pc, config, dt, min_speed, jitter, states, updated_states,
                   tiers, result, call, ret>>

\* create_boids_flat returns; its result is the input of the update
CreateReturn ==
    /\ pc = "create"
    /\ Len(boids_data) = 4 * call.count
    /\ pc' = "idle"
    /\ UNCHANGED <<boids_data, config, dt, min_speed, jitter, states,
                   updated_states, tiers, result, call, ret>>

NextRoundTrip == CreateBoid \/ CreateReturn \/ Enter \/ UpdateBoid \/ Collect

SpecRoundTrip == InitRoundTrip /\ [][NextRoundTrip]_vars

ZeroStrengths ==
    /\ config.separation_strength = 0
    /\ config.alignment_strength = 0
    /\ config.cohesion_strength = 0
    /\ jitter = 0

InWorld(x, y) ==
    /\ x >= 0 /\ x <= config.world_width
    /\ y >= 0 /\ y <= config.world_height

\* the displacement of agent b stays inside the world
StaysInWorld(b) == InWorld(b.x + FMul(b.vx, dt), b.y + FMul(b.vy, dt))

\* new_pos = pos + vel * dt and new_vel = vel
LinearMotion(b, u) ==
    /\ u.x = b.x + FMul(b.vx, dt)
    /\ u.y = b.y + FMul(b.vy, dt)
    /\ u.vx = b.vx
    /\ u.vy = b.vy

MaxFrames == 3

\* the (x, y, vx, vy) of every record of a returned buffer, as the caller
\* passes them to the next call
RECURSIVE NextInput(_)
NextInput(out) ==
    IF Len(out) < 5 THEN <<>>
    ELSE SubSeq(out, 1, 4) \o NextInput(SubSeq(out, 6, Len(out)))

\* the centre of the world of cfg
CenterX(cfg) == FMul(Scale \div 2, cfg.world_width)
CenterY(cfg) == FMul(Scale \div 2, cfg.world_height)

\* configurations with zero strengths and boundary_margin = 0
RestConfigs ==
    {SimpleConfig(2 * Scale, 3 * Scale, 4 * Scale, 0, 0, 0, ms, mf, 0, bs, w, h) :
        ms \in {0, 4 * Scale}, mf \in {0, Scale}, bs \in {0, Scale},
        w \in {0, 5 * Scale, World}, h \in {World}}

InitRest ==
    /\ pc = "idle"
    /\ config \in RestConfigs
    /\ boids_data = <<CenterX(config), CenterY(config), 0, 0>>
    /\ dt \in {Scale \div 10, Scale}
    /\ min_speed \in {0, 2 * Scale, 5 * Scale}
    /\ jitter = 0
    /\ states = <<>>
    /\ updated_states = <<>>
    /\ tiers = <<>>
    /\ result = NoValue
    /\ call = [frame |-> 1]
    /\ ret = NoValue

\* the caller feeds the returned agents into the next update
NextFrame ==
    /\ pc = "done"
    /\ call.frame < MaxFrames
    /\ boids_data' = NextInput(result)
    /\ call' = [frame |-> call.frame + 1]
    /\ pc' = "idle"
    /\ states' = <<>>
    /\ updated_states' = <<>>
    /\ tiers' = <<>>
    /\ result' = NoValue
    /\ UNCHANGED <<config, dt, min_speed, jitter, ret>>

NextRest == Enter \/ UpdateBoid \/ Collect \/ NextFrame

SpecRest == InitRest /\ [][NextRest]_vars

CountDivisors(boid_idx, sts, radius) ==
    IF Cardinality(Neighbours(boid_idx, sts, radius)) > 0
    THEN {Cardinality(Neighbours(boid_idx, sts, radius))}
    ELSE {}

\* `/ dist` and `/ count` of separation
SepDivisors(boid_idx, sts, radius) ==
    {SqrtSq(DistSq(sts[boid_idx], sts[j])) : j \in Neighbours(boid_idx, sts, radius)}
    \cup CountDivisors(boid_idx, sts, radius)

\* `/ dist` of cohesion, under `if dist > 0.0`
SteerDivisors(desired_x, desired_y) ==
    IF SqrtSq(desired_x * desired_x + desired_y * desired_y) > 0
    THEN {SqrtSq(desired_x * desired_x + desired_y * desired_y)}
    ELSE {}

CohDivisors(boid_idx, sts, radius, nb) ==
    IF Cardinality(nb) > 0
    THEN SteerDivisors(
            RDiv(SumOver([j \in nb |-> sts[j].x], nb, 0), Cardinality(nb))
                - sts[boid_idx].x,
            RDiv(SumOver([j \in nb |-> sts[j].y], nb, 0), Cardinality(nb))
                - sts[boid_idx].y)
    ELSE {}

\* `/ mag` of limit_magnitude, under `if mag_sq > max_mag * max_mag`
LimitDivisors(x, y, max_mag) ==
    IF x * x + y * y > max_mag * max_mag THEN {SqrtSq(x * x + y * y)} ELSE {}

\* `/ speed` of the ceiling blend, for the recomputed speed
CeilingDivisors(speed, mx) == IF speed > mx THEN {speed} ELSE {}

\* the two divisions of clamp_speed_progressive
ClampDivisors(v, mn, mx) ==
    (IF length(v) < mn THEN {FloorDivisor(length(v))} ELSE {})
    \cup CeilingDivisors(length(AccelBlend(v, length(v), mn, Blend)), mx)

\* `/ margin` of the four wall blocks of boundary_forces
WallDivisors(boid, cfg) ==
    IF \/ boid.x < cfg.boundary_margin
       \/ boid.x > cfg.world_width - cfg.boundary_margin
       \/ boid.y < cfg.boundary_margin
       \/ boid.y > cfg.world_height - cfg.boundary_margin
    THEN {cfg.boundary_margin}
    ELSE {}

\* `/ len` of Vec2::normalized, under `if len > 0.0`
NormDivisors(v) == IF length(v) > 0 THEN {length(v)} ELSE {}

\* the combined force before limit_magnitude
ForceSum(sep, ali, coh, br, cfg) ==
    <<FMul(sep[1], cfg.separation_strength)
      + FMul(ali[1], cfg.alignment_strength)
      + FMul(coh[1], cfg.cohesion_strength) + br.fx,
      FMul(sep[2], cfg.separation_strength)
      + FMul(ali[2], cfg.alignment_strength)
      + FMul(coh[2], cfg.cohesion_strength) + br.fy>>

LimitOf(f, cfg) == LimitDivisors(f[1], f[2], cfg.max_force)

\* the divisions after the match, on the arm Force
FlockDivisors(i, boid, sts, cfg, d, mn, jit, ang, br) ==
    IF br.tag = "Force"
    THEN LimitOf(ForceSum(separation(i, sts, cfg.separation_radius),
                          alignment(i, sts, cfg.alignment_radius),
                          cohesion(i, sts, cfg.cohesion_radius), br, cfg), cfg)
         \cup ClampDivisors(FlockVel(i, boid, sts, cfg, d, jit, br, ang),
                            mn, cfg.max_speed)
    ELSE {}

\* every divisor a call of update_boid_state divides by
Divisors(i, boid, sts, cfg, d, mn, jit, rng, ang) ==
    IF InMarginBand(boid.x, boid.y, cfg)
    THEN NormDivisors(VecSub(Vec2(CenterX(cfg), CenterY(cfg)),
                             Vec2(boid.x, boid.y)))
         \cup ClampDivisors(MarginVel(boid, cfg, d), mn, cfg.max_speed)
    ELSE SepDivisors(i, sts, cfg.separation_radius)
         \cup CountDivisors(i, sts, cfg.alignment_radius)
         \cup CountDivisors(i, sts, cfg.cohesion_radius)
         \cup CohDivisors(i, sts, cfg.cohesion_radius,
                          Neighbours(i, sts, cfg.cohesion_radius))
         \cup WallDivisors(boid, cfg)
         \cup FlockDivisors(i, boid, sts, cfg, d, mn, jit, ang,
                            boundary_avoidance_simple(boid, cfg, mn, rng))

\* the largest population a single call of update_boid_state is given
MaxCallAgents == 2

DivisorAgents ==
    { BoidState(5 * Scale, 5 * Scale, 0, 0, 0),
      BoidState(5 * Scale, 5 * Scale, Scale, 0, 0),
      BoidState(6 * Scale, 5 * Scale, 0, -6 * Scale, 0),
      BoidState(Scale, 5 * Scale, -2 * Scale, 3 * Scale, 0),
      BoidState(3 * Scale, 3 * Scale, 0, 0, 0),
      BoidState(-Scale, 12 * Scale, 0, -4 * Scale, 0) }

\* configurations with a margin below, at and above zero, one deeper than
\* half the world, and a max_speed below, at and above zero
DivisorConfigs ==
    {SimpleConfig(2 * Scale, 3 * Scale, 4 * Scale, Scale, Scale, Scale, ms, mf,
                  m, Scale, World, World) :
        ms \in {-Scale, 0, 4 * Scale}, mf \in {0, Scale},
        m \in {-2 * Scale, 0, 2 * Scale, 6 * Scale}}

InitDivisors ==
    /\ pc = "call"
    /\ \E n \in 1..MaxCallAgents :
          call \in [i : 1..n,
                    sts : [1..n -> DivisorAgents],
                    cfg : DivisorConfigs,
                    dt : {Scale},
                    min_speed : {0, 2 * Scale},
                    rng : {0}, ang : {0}]
    /\ ret = NoValue
    /\ NoFrame

CallUpdateBoidState ==
    Return([divisors |-> Divisors(call.i, call.sts[call.i], call.sts, call.cfg,
                       call.dt, call.min_speed, 0, call.rng, call.ang)])

SpecDivisors == InitDivisors /\ [][CallUpdateBoidState]_vars

\* C13 as stated: no call of update_boid_state divides by zero, for any
\* agent state and any configuration.
C13_NeverDividesByZero ==
    pc = "returned" => 0 \notin ret.divisors

\* C13 (amended): no call of update_boid_state divides by zero, for any
\* agent state and any configuration with max_speed >= 0.
C13_NoZeroDivisor ==
    (pc = "returned" /\ call.cfg.max_speed >= 0) => 0 \notin ret.divisors

C13_Witness ==
    /\ pc = "returned"
    /\ call.cfg.max_speed >= 0
    /\ call.min_speed > 0
    /\ Len(call.sts) = 2
    /\ DistSq(call.sts[1], call.sts[2]) = 0
    /\ call.sts[call.i].vx = 0 /\ call.sts[call.i].vy = 0
    /\ ret.divisors # {}
    /\ 0 \notin ret.divisors

(* circle_collision *)

\* the largest coordinate of a circle centre, in halves of a unit
MaxCoord == 4

\* `if intersect { sum - distance } else { 0.0 }`
PenetrationUnguarded(intersect, sum, distance) == sum - distance

Penetration(intersect, sum, distance) ==
    IF intersect THEN sum - distance ELSE 0

\* the result for the difference d of the centres, their distance and the
\* sum of the radii
CollisionResult(d, distance, sum) ==
    [intersect |-> distance <= sum,
     distance |-> distance,
     dx |-> d.x,
     dy |-> d.y,
     penetration |-> Penetration(distance <= sum, sum, distance)]

CollisionOf(d, d2, sum) ==
    CollisionResult(d, IF d2 > 0 THEN SqrtSq(d2) ELSE 0, sum)

circle_collision_impl(x1, y1, r1, x2, y2, r2) ==
    CollisionOf(VecSub(Vec2(x2, y2), Vec2(x1, y1)),
                (x2 - x1) * (x2 - x1) + (y2 - y1) * (y2 - y1),
                r1 + r2)

CentreCoords == {k * (Scale \div 2) : k \in -MaxCoord..MaxCoord}

InitCollision ==
    /\ pc = "call"
    /\ call \in [x1 : {0, Scale \div 2}, y1 : {0}, r1 : {-Scale, 0, Scale, 2 * Scale},
                 x2 : CentreCoords, y2 : CentreCoords,
                 r2 : {-Scale, 0, Scale \div 2, 3 * Scale}]
    /\ ret = NoValue
    /\ NoFrame

CallCircleCollision ==
    Return(circle_collision_impl(call.x1, call.y1, call.r1,
                                 call.x2, call.y2, call.r2))

SpecCollision == InitCollision /\ [][CallCircleCollision]_vars

\* the squared centre-to-centre distance of the call
CentreDistSq ==
    (call.x2 - call.x1) * (call.x2 - call.x1)
    + (call.y2 - call.y1) * (call.y2 - call.y1)

\* d is the value nearest to the square root of n
NearestRoot(d, n) ==
    \/ d = 0 /\ n = 0
    \/ d > 0 /\ d * d - d < n /\ n <= d * d + d

\* C14: circle_collision returns the centre-to-centre distance (0 when the
\* centres coincide), intersect exactly when distance <= r1 + r2, and
\* penetration = r1 + r2 - distance when intersect and 0 otherwise, so that
\* penetration is never negative.
C14_CollisionResult ==
    pc = "returned" =>
        /\ ret.distance >= 0
        /\ NearestRoot(ret.distance, CentreDistSq)
        /\ ret.intersect = (ret.distance <= call.r1 + call.r2)
        /\ ret.intersect => ret.penetration = call.r1 + call.r2 - ret.distance
        /\ ~ret.intersect => ret.penetration = 0
        /\ ret.penetration >= 0

C14_Witness ==
    /\ pc = "returned"
    /\ call.x1 = call.x2 /\ call.y1 = call.y2
    /\ call.r1 + call.r2 > 0
    /\ ret.distance = 0
    /\ ret.intersect
    /\ ret.penetration = call.r1 + call.r2

(* point_line_test *)

\* point_line_test is modelled at a finer resolution: the integer n stands
\* for n / GeoScale, and a product of two values for n / GeoScale^2
GeoScale == Scale * Scale

\* the threshold 1e-6 on the squared length, at scale GeoScale^2
LengthEps == (GeoScale * GeoScale) \div 1000000

\* the largest coordinate of an endpoint or of the point, in units of
\* 1 / GeoScale
MaxGeo == 12

\* `line_length_sq < 1e-6`
IsDegenerateExact(line_length_sq) == line_length_sq = 0

IsDegenerate(line_length_sq) == line_length_sq < LengthEps

PointLineResult(distance, closest_x, closest_y, on_segment, side) ==
    [distance |-> distance, closest_x |-> closest_x, closest_y |-> closest_y,
     on_segment |-> on_segment, side |-> side]

\* the result for the closest point (cx, cy)
PointLineAt(px, py, cx, cy, on_segment, side) ==
    PointLineResult(SqrtSq((px - cx) * (px - cx) + (py - cy) * (py - cy)),
                    cx, cy, on_segment, side)

\* the branch after the degenerate case; num / len_sq is the parameter t
PointLineProjected(x1, y1, x2, y2, px, py, dx, dy, num, len_sq) ==
    IF num >= 0 /\ num <= len_sq
    THEN PointLineAt(px, py, x1 + RDiv(num * dx, len_sq),
                     y1 + RDiv(num * dy, len_sq), TRUE,
                     dx * (py - y1) - dy * (px - x1))
    ELSE IF num < 0
    THEN PointLineAt(px, py, x1, y1, FALSE, dx * (py - y1) - dy * (px - x1))
    ELSE PointLineAt(px, py, x2, y2, FALSE, dx * (py - y1) - dy * (px - x1))

PointLineOf(x1, y1, x2, y2, px, py, dx, dy) ==
    IF IsDegenerate(dx * dx + dy * dy)
    THEN PointLineAt(px, py, x1, y1, TRUE, 0)
    ELSE PointLineProjected(x1, y1, x2, y2, px, py, dx, dy,
                            (px - x1) * dx + (py - y1) * dy,
                            dx * dx + dy * dy)

point_line_test_impl(line_x1, line_y1, line_x2, line_y2, point_x, point_y) ==
    PointLineOf(line_x1, line_y1, line_x2, line_y2, point_x, point_y,
                line_x2 - line_x1, line_y2 - line_y1)

GeoCoords == -MaxGeo..MaxGeo

InitPointLine ==
    /\ pc = "call"
    /\ call \in [line_x1 : {0, 3}, line_y1 : {0},
                 line_x2 : GeoCoords, line_y2 : GeoCoords,
                 point_x : {-6, 0, 5, 12}, point_y : {-6, 0, 3}]
    /\ ret = NoValue
    /\ NoFrame

CallPointLineTest ==
    Return(point_line_test_impl(call.line_x1, call.line_y1, call.line_x2,
                                call.line_y2, call.point_x, call.point_y))

SpecPointLine == InitPointLine /\ [][CallPointLineTest]_vars

SegmentLengthSq ==
    (call.line_x2 - call.line_x1) * (call.line_x2 - call.line_x1)
    + (call.line_y2 - call.line_y1) * (call.line_y2 - call.line_y1)

\* the numerator of the projection parameter and the cross product
ProjectionNum ==
    (call.point_x - call.line_x1) * (call.line_x2 - call.line_x1)
    + (call.point_y - call.line_y1) * (call.line_y2 - call.line_y1)

CrossProduct ==
    (call.line_x2 - call.line_x1) * (call.point_y - call.line_y1)
    - (call.line_y2 - call.line_y1) * (call.point_x - call.line_x1)

\* the result of the degenerate case
DegenerateResult ==
    /\ NearestRoot(ret.distance,
                   (call.point_x - call.line_x1) * (call.point_x - call.line_x1)
                   + (call.point_y - call.line_y1) * (call.point_y - call.line_y1))
    /\ ret.closest_x = call.line_x1
    /\ ret.closest_y = call.line_y1
    /\ ret.on_segment = TRUE
    /\ ret.side = 0

\* on_segment and side from the projection and the cross product
ProjectedResult ==
    /\ ret.on_segment = (ProjectionNum >= 0 /\ ProjectionNum <= SegmentLengthSq)
    /\ ret.side = CrossProduct

\* C15 as stated: exactly the segment with equal endpoints is degenerate;
\* every segment whose endpoints differ gets on_segment and side from the
\* projection and the cross product.
C15_ExactlyZeroLength ==
    pc = "returned" =>
        IF SegmentLengthSq = 0 THEN DegenerateResult ELSE ProjectedResult

\* C15 (amended): every segment whose squared length is below 1e-6, the
\* zero-length segment included, is degenerate; every segment whose squared
\* length is at least 1e-6 gets on_segment and side from the projection and
\* the cross product.
C15_ShortSegmentDegenerate ==
    pc = "returned" =>
        IF SegmentLengthSq < LengthEps THEN DegenerateResult ELSE ProjectedResult

C15_Witness ==
    /\ pc = "returned"
    /\ SegmentLengthSq > 0
    /\ SegmentLengthSq < LengthEps
    /\ CrossProduct # 0
    /\ ProjectionNum > SegmentLengthSq
    /\ DegenerateResult

(* The output flag, by tier *)

\* the flag recomputed from the output position of agent k
FlagOfNewPos(k) ==
    IF NearWall(updated_states[k].x, updated_states[k].y) THEN IN_MARGIN ELSE 0

\* C16 as stated: for every agent and every tier the output flag is 1
\* exactly when the output position is within boundary_margin of a wall.
C16_FlagFromNewPosAllTiers ==
    \A k \in Processed : updated_states[k].flags = FlagOfNewPos(k)

\* C16 (amended): on the normal flocking path the output flag is 1 exactly
\* when the output position is within boundary_margin of a wall; the margin
\* override always returns the flag 1 and a bounce always the flag 0,
\* whatever the output position.
C16_FlagByTier ==
    \A k \in Processed :
        /\ tiers[k].tier = "Force" => updated_states[k].flags = FlagOfNewPos(k)
        /\ tiers[k].tier = "Margin" => updated_states[k].flags = IN_MARGIN
        /\ tiers[k].tier = "Bounce" => updated_states[k].flags = 0

C16_Witness ==
    \E k \in Processed :
        /\ tiers[k].tier = "Margin"
        /\ config.boundary_margin > 0
        /\ ~OutOfWorld(Snap[k])
        /\ ~NearWall(updated_states[k].x, updated_states[k].y)
        /\ updated_states[k].flags = IN_MARGIN

(* The margin override *)

OverrideAgents ==
    { BoidState(5 * Scale, 5 * Scale, Scale, 0, 0),
      BoidState(Scale, 5 * Scale, -2 * Scale, 3 * Scale, 0),
      BoidState(2 * Scale, 9 * Scale, 0, 0, 0),
      BoidState((19 * Scale) \div 2, Scale, 3 * Scale, -3 * Scale, 0),
      BoidState(Scale, 6 * Scale, 0, Scale, 0) }

\* configurations with a margin band along the walls and with a margin
\* deeper than half the world
OverrideConfigs ==
    {SimpleConfig(2 * Scale, 3 * Scale, 4 * Scale, s, s, s, 4 * Scale, mf,
                  m, bs, World, World) :
        s \in {0, Scale}, mf \in {Scale, 2 * Scale}, m \in {2 * Scale, 6 * Scale},
        bs \in {0, Scale}}

InitOverride ==
    /\ pc = "call"
    /\ \E n \in 1..MaxCallAgents :
          call \in [i : 1..n,
                    sts : [1..n -> OverrideAgents],
                    cfg : OverrideConfigs,
                    dt : {Scale \div 10, Scale},
                    min_speed : {0, 2 * Scale},
                    jitter : {0, Scale \div 2},
                    rng : {0, Scale \div 2},
                    ang : {Scale \div 4}]
    /\ ret = NoValue
    /\ NoFrame

\* a call of update_boid_state, with the branch it takes
CallUpdateWithTier ==
    Return([state |-> update_boid_state(call.i, call.sts[call.i], call.sts,
                                        call.cfg, call.dt, call.min_speed,
                                        call.jitter, call.rng, call.ang),
            tier |-> TierOf(call.i, call.sts[call.i], call.sts, call.cfg,
                            call.dt, call.min_speed, call.jitter, call.rng,
                            call.ang)])

SpecOverride == InitOverride /\ [][CallUpdateWithTier]_vars

\* the agent of the call, and whether it is inside the margin band
CalledAgent == call.sts[call.i]

CalledInBand == InMarginBand(CalledAgent.x, CalledAgent.y, call.cfg)

\* the call's configuration with zero strengths and zero boundary_strength
Bare(cfg) ==
    [cfg EXCEPT !.separation_strength = 0, !.alignment_strength = 0,
                !.cohesion_strength = 0, !.boundary_strength = 0]

\* the result is that of the agent alone, without strengths, jitter and draws
AloneResult ==
    ret.state = update_boid_state(1, CalledAgent, <<CalledAgent>>, Bare(call.cfg),
                                  call.dt, call.min_speed, 0, 0, 0)

\* the velocity the override adds before the clamp
Gain == VecSub(ret.tier.vel, Vec2(CalledAgent.vx, CalledAgent.vy))

\* the offset of the world centre from the agent
ToCentre ==
    Vec2(CenterX(call.cfg) - CalledAgent.x, CenterY(call.cfg) - CalledAgent.y)

\* the gain has magnitude 10 * max_force * dt, up to the rounding of the
\* unit direction, and points at the centre
GainAtCentre ==
    LET target == FMul(FMul(10 * Scale, call.cfg.max_force), call.dt)
    IN  /\ Abs(length(Gain) - target) <= target \div 50 + 2
        /\ Gain.x * ToCentre.x >= 0
        /\ Gain.y * ToCentre.y >= 0
        /\ Gain.x * ToCentre.x + Gain.y * ToCentre.y > 0

\* C17 as stated: an agent inside the margin band is moved by the override
\* alone, independently of the other agents, the strengths, boundary_strength
\* and the draws; its velocity gains 10 * max_force * dt directed at the
\* world centre before the clamp and its output flag is IN_MARGIN.
C17_OverrideAlone ==
    (pc = "returned" /\ CalledInBand) =>
        /\ ret.tier.tier = "Margin"
        /\ AloneResult
        /\ GainAtCentre
        /\ ret.state.flags = IN_MARGIN

\* C17 (amended): as stated, except that an agent exactly at the world
\* centre gains no velocity.
C17_OverrideAloneOffCentre ==
    (pc = "returned" /\ CalledInBand) =>
        /\ ret.tier.tier = "Margin"
        /\ AloneResult
        /\ IF ToCentre = Vec2(0, 0) THEN Gain = Vec2(0, 0) ELSE GainAtCentre
        /\ ret.state.flags = IN_MARGIN

C17_Witness ==
    /\ pc = "returned"
    /\ CalledInBand
    /\ Len(call.sts) = 2
    /\ call.sts[1] # call.sts[2]
    /\ call.cfg.separation_strength > 0
    /\ call.cfg.boundary_strength > 0
    /\ call.jitter > 0
    /\ ToCentre.x # 0 /\ ToCentre.y # 0
    /\ AloneResult
    /\ GainAtCentre

(* The combined force of the normal path *)

ForceAgentsInWorld ==
    { BoidState(5 * Scale, 5 * Scale, Scale, 0, 0),
      BoidState(6 * Scale, 5 * Scale, 0, 2 * Scale, 0),
      BoidState(5 * Scale, (13 * Scale) \div 2, -Scale, Scale, 0),
      BoidState((16 * Scale) \div 5, 5 * Scale, Scale, 0, 0),
      BoidState(5 * Scale, 5 * Scale, 0, -Scale, 0),
      BoidState(9 * Scale, Scale, Scale, Scale, 0) }

\* (separation, alignment, cohesion) strengths of a call
StrengthTriples == {<<0, 0, 0>>, <<Scale, 0, 0>>, <<Scale, Scale, Scale>>}

ForceConfigs ==
    {SimpleConfig(2 * Scale, 3 * Scale, 4 * Scale, st[1], st[2], st[3],
                  4 * Scale, mf, m, Scale, World, World) :
        st \in StrengthTriples, mf \in {0, Scale \div 2, Scale, 2 * Scale},
        m \in {0, 2 * Scale}}

InitFlockForce ==
    /\ pc = "call"
    /\ \E n \in 1..MaxCallAgents :
          call \in [i : 1..n,
                    sts : [1..n -> ForceAgentsInWorld],
                    cfg : ForceConfigs,
                    rng : {0}]
    /\ ret = NoValue
    /\ NoFrame

\* the combined force before and after limit_magnitude, on the arm Force
ForcePair(i, boid, sts, cfg, br) ==
    IF br.tag = "Force"
    THEN [applied |-> TRUE,
          sum |-> ForceSum(separation(i, sts, cfg.separation_radius),
                           alignment(i, sts, cfg.alignment_radius),
                           cohesion(i, sts, cfg.cohesion_radius), br, cfg),
          force |-> FlockForce(i, boid, sts, cfg, br)]
    ELSE [applied |-> FALSE]

\* the force part of update_boid_state: nothing for an agent in the band
CallFlockForce ==
    Return(IF InMarginBand(call.sts[call.i].x, call.sts[call.i].y, call.cfg)
           THEN [applied |-> FALSE]
           ELSE ForcePair(call.i, call.sts[call.i], call.sts, call.cfg,
                          boundary_avoidance_simple(call.sts[call.i], call.cfg,
                                                    0, call.rng)))

SpecFlockForce == InitFlockForce /\ [][CallFlockForce]_vars

\* squared magnitude of a force pair, at scale Scale^2
MagSq(f) == f[1] * f[1] + f[2] * f[2]

\* the rounding of the two rescaled components
LimitTolerance(max_mag) == 1 + max_mag \div Scale

\* f has the magnitude max_mag and the direction of g
RescaledTo(f, g, max_mag) ==
    /\ Abs(SqrtSq(MagSq(f)) - max_mag) <= LimitTolerance(max_mag)
    /\ f[1] * g[1] >= 0
    /\ f[2] * g[2] >= 0
    /\ max_mag > 0 => f[1] * g[1] + f[2] * g[2] > 0
    /\ Abs(f[1] * g[2] - f[2] * g[1]) <= LimitTolerance(max_mag) * SqrtSq(MagSq(g))

\* C18: the combined force of the normal path is passed through unchanged
\* when its squared magnitude is at most max_force^2 and is otherwise
\* rescaled to the magnitude max_force with its direction unchanged, so that
\* the applied force never has a magnitude above max_force.
C18_ForceLimited ==
    (pc = "returned" /\ ret.applied) =>
        /\ MagSq(ret.sum) <= call.cfg.max_force * call.cfg.max_force
              => ret.force = ret.sum
        /\ MagSq(ret.sum) > call.cfg.max_force * call.cfg.max_force
              => RescaledTo(ret.force, ret.sum, call.cfg.max_force)
        /\ SqrtSq(MagSq(ret.force))
              <= call.cfg.max_force + LimitTolerance(call.cfg.max_force)

C18_Witness ==
    /\ pc = "returned"
    /\ ret.applied
    /\ call.cfg.max_force = 2 * Scale
    /\ MagSq(ret.sum) > call.cfg.max_force * call.cfg.max_force
    /\ ret.sum[1] # 0 /\ ret.sum[2] # 0
    /\ ret.force # ret.sum
    /\ RescaledTo(ret.force, ret.sum, call.cfg.max_force)

(* The alignment force *)

\* the average velocity of the agents js minus the own velocity of the
\* called agent, (0,0) without such an agent
AlignmentOver(js) ==
    IF js = {} THEN <<0, 0>>
    ELSE <<RDiv(SumOver([j \in js |-> call.sts[j].vx], js, 0), Cardinality(js))
              - call.sts[call.idx].vx,
           RDiv(SumOver([j \in js |-> call.sts[j].vy], js, 0), Cardinality(js))
              - call.sts[call.idx].vy>>

\* every other agent closer than the radius, whatever its position
WithinRadius ==
    {j \in 1..Len(call.sts) :
        j # call.idx
        /\ DistSq(call.sts[call.idx], call.sts[j]) < call.radius * call.radius}

\* every other agent closer than the radius and not at the same position
WithinRadiusApart ==
    {j \in WithinRadius : DistSq(call.sts[call.idx], call.sts[j]) > 0}

\* C19 as stated: the alignment force is the average velocity of every
\* other agent closer than the radius, an agent at the same position
\* included, minus the own velocity, and (0,0) without such an agent.
C19_AlignmentAllWithin ==
    (pc = "returned" /\ ret.fn = "alignment") =>
        ret.force = AlignmentOver(WithinRadius)

\* C19 (amended): the alignment force is the average velocity of every
\* other agent at a distance greater than 0 and less than the radius minus
\* the own velocity, and (0,0) without such an agent; an agent at the same
\* position is not a neighbour.
C19_AlignmentApart ==
    (pc = "returned" /\ ret.fn = "alignment") =>
        ret.force = AlignmentOver(WithinRadiusApart)

C19_Witness ==
    /\ pc = "returned"
    /\ ret.fn = "alignment"
    /\ WithinRadiusApart # {}
    /\ WithinRadiusApart # WithinRadius
    /\ ret.force = AlignmentOver(WithinRadiusApart)
    /\ ret.force # AlignmentOver(WithinRadius)

(* voronoi_create_points and voronoi_step_points *)

\* the largest `count` of moving points
MaxPoints == 3

\* the number of voronoi_step_points calls in a row
MaxSteps == 2

\* frand01 returns (state & 0xFFFFFF) / 0xFFFFFF, a value of [0, 1] with
\* both ends included; the model draws it from a few values of that range
PositionDraws == {0, Scale}
AngleDraws == {0, Scale \div 2}
SpeedDraws == {Scale}

\* the multiplier 0x85EB_CA6B, as its high and low 16 bits
StrideHigh == 34283
StrideLow == 51819

\* `i as u32 * 0x85EB_CA6B` exceeds u32::MAX
MulOverflows(i) == i * StrideHigh + (i * StrideLow) \div 65536 >= 65536

\* the four values of a point at angle draw ra with speed spd
PointOf(x, y, ra, spd) ==
    <<x, y, FMul(CosTau(ra), spd), FMul(SinTau(ra), spd)>>

\* one iteration of the loop of voronoi_create_points
CreatedPoint(c, rx, ry, ra, rs) ==
    PointOf(FMul(rx, c.width), FMul(ry, c.height), ra,
            FMul((2 * Scale) \div 10 + FMul((8 * Scale) \div 10, rs), c.speed))

\* the respawn of voronoi_step_points
Respawned(c, rx, ry, ra, rs) ==
    PointOf(FMul(rx, c.width), FMul(ry, c.height), ra,
            10 * Scale + FMul(40 * Scale, rs))

\* the four fixed corner points with zero velocity
Corners(width, height) ==
    <<0, 0, 0, 0>> \o <<width, 0, 0, 0>> \o <<0, height, 0, 0>>
    \o <<width, height, 0, 0>>

\* `out[ix..ix + 4] = p`
WritePoint(out, ix, p) ==
    [k \in 1..Len(out) |-> IF k > ix /\ k <= ix + 4 THEN p[k - ix] ELSE out[k]]

\* `points.len() / 4` and the number of moving points among them
PointCount(points) == Len(points) \div 4

MovingCount(points) ==
    IF PointCount(points) >= 4 THEN PointCount(points) - 4 ELSE PointCount(points)

\* the position of point i after `x += vx * dt; y += vy * dt`
MovedX(points, i, d) == points[4 * i + 1] + FMul(points[4 * i + 3], d)

MovedY(points, i, d) == points[4 * i + 2] + FMul(points[4 * i + 4], d)

OutOfBounds(x, y, width, height) ==
    x < 0 \/ x > width \/ y < 0 \/ y > height

\* `for (k, &(x, y)) in corners.iter().enumerate()` under `if fixed_corners`
PinCorners(out, width, height) ==
    IF PointCount(out) >= 4
    THEN [k \in 1..Len(out) |->
            IF k > 4 * MovingCount(out) /\ k <= 4 * MovingCount(out) + 16
            THEN Corners(width, height)[k - 4 * MovingCount(out)]
            ELSE out[k]]
    ELSE out

InitVoronoi ==
    /\ pc = "create"
    /\ call \in [count : 0..MaxPoints, width : {World}, height : {0, World},
                 speed : {50 * Scale}, dt : {Scale \div 10}, i : {0}, steps : {0}]
    /\ boids_data = <<>>
    /\ result = <<>>
    /\ config = NoValue
    /\ dt = 0
    /\ min_speed = 0
    /\ jitter = 0
    /\ states = <<>>
    /\ updated_states = <<>>
    /\ tiers = <<>>
    /\ ret = NoValue

\* one iteration of `for i in 0..count` of voronoi_create_points
CreatePoint ==
    /\ pc = "create"
    /\ call.i < call.count
    /\ \E rx \in PositionDraws, ry \in PositionDraws, ra \in AngleDraws,
          rs \in SpeedDraws :
          result' = result \o CreatedPoint(call, rx, ry, ra, rs)
    /\ call' = [call EXCEPT !.i = call.i + 1]
    /\ UNCHANGED <<pc, boids_data, config, dt, min_speed, jitter, states,
                   updated_states, tiers, ret>>

\* the corners are appended and the buffer is returned
CreateCorners ==
    /\ pc = "create"
    /\ call.i = call.count
    /\ result' = result \o Corners(call.width, call.height)
    /\ pc' = "points"
    /\ UNCHANGED <<boids_data, config, dt, min_speed, jitter, states,
                   updated_states, tiers, call, ret>>

\* voronoi_step_points is called with the buffer: `out = points.to_vec()`
StepEnter ==
    /\ pc = "points"
    /\ call.steps < MaxSteps
    /\ boids_data' = result
    /\ call' = [call EXCEPT !.i = 0]
    /\ pc' = "step"
    /\ UNCHANGED <<result, config, dt, min_speed, jitter, states,
                   updated_states, tiers, ret>>

\* one iteration of `for i in 0..moving_n`; on a build without overflow
\* checks the multiplication of the respawn seed wraps
StepPoint ==
    /\ pc = "step"
    /\ call.i < MovingCount(boids_data)
    /\ IF OutOfBounds(MovedX(boids_data, call.i, call.dt),
                      MovedY(boids_data, call.i, call.dt),
                      call.width, call.height)
       THEN \E rx \in PositionDraws, ry \in PositionDraws, ra \in AngleDraws,
               rs \in SpeedDraws :
               result' = WritePoint(result, 4 * call.i,
                                    Respawned(call, rx, ry, ra, rs))
       ELSE result' = WritePoint(result, 4 * call.i,
                                 <<MovedX(boids_data, call.i, call.dt),
                                   MovedY(boids_data, call.i, call.dt),
                                   boids_data[4 * call.i + 3],
                                   boids_data[4 * call.i + 4]>>)
    /\ call' = [call EXCEPT !.i = call.i + 1]
    /\ UNCHANGED <<pc, boids_data, config, dt, min_speed, jitter, states,
                   updated_states, tiers, ret>>

\* on a build with overflow checks the multiplication of the respawn seed
\* panics when it exceeds u32::MAX
StepPanic ==
    /\ pc = "step"
    /\ call.i < MovingCount(boids_data)
    /\ OutOfBounds(MovedX(boids_data, call.i, call.dt),
                   MovedY(boids_data, call.i, call.dt),
                   call.width, call.height)
    /\ MulOverflows(call.i)
    /\ pc' = "panic"
    /\ UNCHANGED <<boids_data, result, config, dt, min_speed, jitter, states,
                   updated_states, tiers, call, ret>>

\* the corners are pinned and the buffer is returned
StepCorners ==
    /\ pc = "step"
    /\ call.i = MovingCount(boids_data)
    /\ result' = PinCorners(result, call.width, call.height)
    /\ call' = [call EXCEPT !.steps = call.steps + 1]
    /\ pc' = "points"
    /\ UNCHANGED <<boids_data, config, dt, min_speed, jitter, states,
                   updated_states, tiers, ret>>

NextVoronoi ==
    CreatePoint \/ CreateCorners \/ StepEnter \/ StepPoint \/ StepPanic
    \/ StepCorners

SpecVoronoi == InitVoronoi /\ [][NextVoronoi]_vars

\* the returned buffer has (count + 4) * 4 values, ends with the four
\* corners and keeps every moving point inside the viewport
PointsInvariant ==
    /\ Len(result) = (call.count + 4) * 4
    /\ SubSeq(result, 4 * call.count + 1, Len(result))
          = Corners(call.width, call.height)
    /\ \A i \in 0..(call.count - 1) :
          ~OutOfBounds(result[4 * i + 1], result[4 * i + 2],
                       call.width, call.height)

\* C20: every call of voronoi_step_points on a created buffer returns, a
\* point that would leave being respawned inside, and every returned buffer
\* has (count + 4) * 4 values, the four corners with zero velocity at its
\* end and every moving point inside [0, width] x [0, height].
C20_PointsStayInside ==
    /\ pc # "panic"
    /\ pc = "points" => PointsInvariant

\* on a build whose multiplication wraps every returned buffer is valid
ReturnedBuffersValid == pc = "points" => PointsInvariant

(* boundary_avoidance_simple as update_boid_state calls it *)

\* positions on, next to and across the walls and the band edges
WallCoords ==
    {-3 * Scale, -2 * Scale, -Scale, 0, Scale, 2 * Scale, 5 * Scale, 8 * Scale,
     9 * Scale, 10 * Scale, 11 * Scale, 12 * Scale, 13 * Scale}

WallConfigs ==
    {SimpleConfig(2 * Scale, 3 * Scale, 4 * Scale, Scale, Scale, Scale,
                  4 * Scale, Scale, m, bs, World, World) :
        m \in {-2 * Scale, -Scale, 0, 2 * Scale, 6 * Scale}, bs \in {0, Scale}}

InitWalls ==
    /\ pc = "call"
    /\ call \in [x : WallCoords, y : WallCoords, vx : {-3 * Scale},
                 vy : {Scale}, cfg : WallConfigs, min_speed : {0},
                 rng : {0, Scale \div 2}]
    /\ ret = NoValue
    /\ NoFrame

\* the boundary result of update_boid_state for a boid: none when the margin
\* check returns before boundary_avoidance_simple is called
BoundaryOf(boid, cfg, mn, rng) ==
    IF InMarginBand(boid.x, boid.y, cfg)
    THEN [tag |-> "NotCalled"]
    ELSE boundary_avoidance_simple(boid, cfg, mn, rng)

\* a call of update_boid_state from the map of update_boids_flat_impl, with
\* the boundary result it matches on
CallUpdateAtWall ==
    Return([boundary |-> BoundaryOf(BoidState(call.x, call.y, call.vx, call.vy, 0),
                                    call.cfg, call.min_speed, call.rng)])

SpecWalls == InitWalls /\ [][CallUpdateAtWall]_vars

\* the agent of the call lies inside [margin, width-margin] x [margin,
\* height-margin]
InsideBand ==
    /\ call.cfg.boundary_margin <= call.x
    /\ call.x <= call.cfg.world_width - call.cfg.boundary_margin
    /\ call.cfg.boundary_margin <= call.y
    /\ call.y <= call.cfg.world_height - call.cfg.boundary_margin

\* the boundary result changes the flocking path: a bounce, a velocity
\* override or a wall force other than zero
BoundaryActs ==
    \/ ret.boundary.tag \in {"Bounce", "OverrideVelocity"}
    \/ ret.boundary.tag = "Force"
       /\ (ret.boundary.fx # 0 \/ ret.boundary.fy # 0)

BounceReached ==
    /\ pc = "returned"
    /\ call.cfg.boundary_margin < 0
    /\ ret.boundary.tag = "Bounce"

\* no call returns a wall force other than zero, whatever the margin
WallForceNeverReturned ==
    pc = "returned" /\ ret.boundary.tag = "Force"
        => ret.boundary.fx = 0 /\ ret.boundary.fy = 0

====
